---- MODULE Spec2Model ----
(***************************************************************************)
(* A model of gmo_coin_fx_api.websocket_api.WebsocketAPI: the subscription *)
(* registry, start()/close(), the public and private supervisor loops      *)
(* (_run_public_loop, _run_private_loop, _run_ws_loop) and _dispatch.       *)
(*                                                                         *)
(* Every loop task is an asyncio task.  Its position `pc` names the await  *)
(* it is suspended at; one action completes that await with one of the     *)
(* outcomes the transport can produce and runs the coroutine up to its     *)
(* next await.  A cancellation requested by close() is delivered as a      *)
(* CancelledError at the await the task is suspended at (asyncio raises    *)
(* it instead of the awaited result), and CancelledError is a              *)
(* BaseException: `except Exception` does not catch it.                     *)
(* The caller of start()/close()/subscribe_* is one sequential coroutine.  *)
(***************************************************************************)
EXTENDS Integers, Sequences, FiniteSets, TLC

\* Bounds of the model.
MaxSubCalls == 2
MaxTasks == 2
\* Frames a simulated connection delivers before the server closes it.
SimFrames == 1
\* The rate limiter: time is counted in ticks, a period lasts `period` ticks,
\* max_calls ranges over 1..MaxLimit, MaxCallers coroutines call the limiter,
\* MaxAdmitted calls in all, and the clock stops at MaxTime.
period == 2
MaxLimit == 2
MaxCallers == 2
MaxAdmitted == 3
MaxTime == 4
\* Response bodies carry a status of 0..MaxStatus.
MaxStatus == 2
\* start_private_ws is called with up to MaxChannels channels.
MaxChannels == 2

Symbols == {"USD_JPY"}
Options == {"PERIODIC"}

PrivateChannels ==
  {"executionEvents", "orderEvents", "positionEvents", "positionSummaryEvents"}
Channels == {"ticker"} \cup PrivateChannels

TaskIds == 1..MaxTasks

CallerIds == 1..MaxCallers

\* Decoded inbound frames: data.get("channel") ("" for every falsy value:
\* the key is absent, or present with null or an empty string), whether the
\* "channel" key is present, and the presence of the "ask" and "bid" keys.
Frames ==
  {[channel |-> c, key |-> TRUE, ask |-> a, bid |-> b] :
     c \in Channels \cup {"unknown", ""}, a \in BOOLEAN, b \in BOOLEAN}
  \cup {[channel |-> "", key |-> FALSE, ask |-> a, bid |-> b] : a, b \in BOOLEAN}

NoFrame == [channel |-> "", key |-> FALSE, ask |-> FALSE, bid |-> FALSE]

VARIABLES
  api_key,                \* self.api_key is truthy
  secret_key,             \* self.secret_key is truthy
  on_error,               \* self.on_error is supplied
  running,                \* self._running
  tasks,                  \* self._tasks: sequence of task ids
  callbacks,              \* self._callbacks: channel -> callback id, 0 = no entry
  public_subscriptions,   \* self._public_subscriptions
  private_subscriptions,  \* self._private_subscriptions
  task,                   \* the asyncio tasks created by start(); `owed`: the
                          \* server has issued the loop a token for which it
                          \* has received no deletion request; `sess`: the
                          \* AsyncSessions the loop has entered and not left;
                          \* `cb`: 1 while the loop awaits a callback
  caller,                 \* "idle", or "closing" while close() awaits gather
  ev,                     \* what the last step did (observation only)
  max_calls,              \* RateLimiter.max_calls
  calls,                  \* RateLimiter.calls: the times appended, oldest first
  now,                    \* loop.time(), in ticks
  wake,                   \* per caller: the end of its asyncio.sleep, -1 = not
                          \* inside __call__
  admitted,               \* the times at which __call__ let a caller through
                          \* (observation only)
  call,                   \* per caller: the PublicAPI / PrivateAPI method it runs
  legacy                  \* the WebsocketAPI of the package's __init__.py

vars == <<api_key, secret_key, on_error, running, tasks, callbacks,
          public_subscriptions, private_subscriptions, task, caller, ev,
          max_calls, calls, now, wake, admitted, call, legacy>>

limiter == <<max_calls, calls, now, wake, admitted>>

\* What the WebsocketAPI methods do not touch.
others == <<limiter, call, legacy>>

\* A method argument: not given (None), given with a falsy value (0, "",
\* []), or given with a value.
Args == {"none", "falsy", "value"}

\* Decoded response bodies: json_response.get("status") and whether
\* json_response.get("data") is not None.
Bodies == [status : 0..MaxStatus, data : BOOLEAN]

NoCall ==
  [api |-> "private", pc |-> "idle", a |-> "none", b |-> "none",
   rest |-> TRUE, sent |-> "",
   body |-> [status |-> 0, data |-> FALSE], out |-> ""]

config == <<api_key, secret_key, on_error>>
registry == <<callbacks, public_subscriptions, private_subscriptions>>

NoTask ==
  [kind |-> "none", pc |-> "none", idx |-> 0, token |-> FALSE, uses |-> 0,
   cancel |-> FALSE, after |-> "loop", left |-> 0, bad |-> FALSE,
   owed |-> FALSE, sess |-> 0, cb |-> 0]

NoEv ==
  [t |-> 0, kind |-> "init", cb |-> 0, raised |-> FALSE, err |-> 0,
   frame |-> NoFrame]

Ev(t, kind) == [NoEv EXCEPT !.t = t, !.kind = kind]

\* The channels start_private_ws is given: {"name": ...} with or without
\* an "option".
ChannelInfos == [name : PrivateChannels, option : {"none"} \cup Options]

ChannelLists == UNION {[1..n -> ChannelInfos] : n \in 0..MaxChannels}

\* WebsocketAPI.__init__ of __init__.py (lines 1475-1481) and the locals
\* of the start_*_ws call in progress.
NoLegacy ==
  [on_error_callback |-> "none", on_close_callback |-> FALSE,
   kind |-> "none", pc |-> "idle", channels |-> <<>>, msgs |-> <<>>,
   sent |-> <<>>, stop |-> FALSE, open |-> FALSE, err |-> "",
   reported |-> FALSE, raised |-> FALSE, closed |-> FALSE]

\* RateLimiter.__init__ (rate_limiter.py lines 5-8), the clock at 0.
LimiterInit(m) ==
  /\ max_calls = m
  /\ calls = <<>>
  /\ now = 0
  /\ wake = [c \in CallerIds |-> -1]
  /\ admitted = <<>>
  /\ call = [c \in CallerIds |-> NoCall]

\* __init__ (lines 31-49); the limiter of the token requests is
\* PrivateAPI.post_api_limiter = RateLimiter(max_calls=1, period=1).
Init ==
  /\ LimiterInit(1)
  /\ api_key \in BOOLEAN
  /\ secret_key \in BOOLEAN
  /\ on_error \in BOOLEAN
  /\ running = FALSE
  /\ tasks = <<>>
  /\ callbacks = [c \in Channels |-> 0]
  /\ public_subscriptions = <<>>
  /\ private_subscriptions = <<>>
  /\ task = [i \in TaskIds |-> NoTask]
  /\ caller = "idle"
  /\ ev = NoEv
  /\ legacy = NoLegacy

Range(s) == {s[i] : i \in 1..Len(s)}

SubCalls == Len(public_subscriptions) + Len(private_subscriptions)

-----------------------------------------------------------------------------
\* Subscription methods (lines 89-109).  The callback handed to the k-th
\* subscribe_* call is identified by k.

SubMsg(channel, symbol, option) ==
  [command |-> "subscribe", channel |-> channel, symbol |-> symbol, option |-> option]

Register(channel) == callbacks' = [callbacks EXCEPT ![channel] = SubCalls + 1]

SubscribeGuard == caller = "idle" /\ SubCalls < MaxSubCalls

subscribe_ticker ==
  /\ SubscribeGuard
  /\ \E symbol \in Symbols :
       public_subscriptions' = Append(public_subscriptions, SubMsg("ticker", symbol, ""))
  /\ Register("ticker")
  /\ ev' = Ev(0, "subscribe")
  /\ UNCHANGED <<config, running, tasks, private_subscriptions, task, caller, others>>

PrivateSubscribe(channel, option) ==
  /\ SubscribeGuard
  /\ private_subscriptions' = Append(private_subscriptions, SubMsg(channel, "", option))
  /\ Register(channel)
  /\ ev' = Ev(0, "subscribe")
  /\ UNCHANGED <<config, running, tasks, public_subscriptions, task, caller, others>>

subscribe_executions == PrivateSubscribe("executionEvents", "")

subscribe_orders == PrivateSubscribe("orderEvents", "")

subscribe_positions == PrivateSubscribe("positionEvents", "")

subscribe_position_summary ==
  \E option \in Options : PrivateSubscribe("positionSummaryEvents", option)

-----------------------------------------------------------------------------
\* start() (lines 57-69) and close() (lines 71-84)

Settled(i) == task[i].pc \in {"none", "done"}

\* Task slots asyncio no longer holds: never used, or finished and dropped
\* from self._tasks.
FreeIds == {i \in TaskIds : task[i].pc = "none" \/ (task[i].pc = "done" /\ i \notin Range(tasks))}

MinOf(S) == CHOOSE i \in S : \A j \in S : i <= j

Spawn(kind) == [NoTask EXCEPT !.kind = kind, !.pc = "spawned"]

\* A check that looks at api_key only.
MissingCredentials_key_only == ~api_key

\* `not self.api_key or not self.secret_key` (line 67)
MissingCredentials == ~api_key \/ ~secret_key

start ==
  /\ caller = "idle"
  /\ running' = TRUE
  /\ LET wantPub == public_subscriptions # <<>>
         wantPriv == private_subscriptions # <<>>
         raises == wantPriv /\ MissingCredentials
         need == (IF wantPub THEN 1 ELSE 0) + (IF wantPriv /\ ~raises THEN 1 ELSE 0)
     IN /\ Cardinality(FreeIds) >= need
        /\ LET p == MinOf(FreeIds)
               q == MinOf(FreeIds \ (IF wantPub THEN {p} ELSE {}))
               t1 == IF wantPub THEN [task EXCEPT ![p] = Spawn("public")] ELSE task
               l1 == IF wantPub THEN Append(tasks, p) ELSE tasks
           IN IF wantPriv /\ ~raises
                THEN /\ task' = [t1 EXCEPT ![q] = Spawn("private")]
                     /\ tasks' = Append(l1, q)
                ELSE /\ task' = t1
                     /\ tasks' = l1
        /\ ev' = Ev(0, IF raises THEN "startRaised" ELSE "start")
  /\ UNCHANGED <<config, registry, caller, others>>

\* Positions of self._tasks whose task awaits a gather that contains the
\* task itself (see callback_close).  task.cancel() on such a task cancels
\* the gather, which cancels the task, which cancels the gather, ...: the
\* call raises RecursionError.
Hung(k) == task[tasks[k]].pc = "hung"

\* The tasks the `for task in self._tasks: task.cancel()` of close() reaches.
Reached(i) ==
  \E k \in 1..Len(tasks) : tasks[k] = i /\ \A j \in 1..k : ~Hung(j)

\* close() up to its await: the flag, task.cancel() for every task of
\* self._tasks, and, with no task to wait for, the rest of the method.
close ==
  /\ caller = "idle"
  /\ running' = FALSE
  /\ task' = [i \in TaskIds |->
                IF Reached(i) /\ ~Settled(i)
                  THEN [task[i] EXCEPT !.cancel = TRUE]
                  ELSE task[i]]
  /\ IF \E k \in 1..Len(tasks) : Hung(k)
       THEN /\ caller' = "idle"
            /\ ev' = Ev(0, "closeRaised")
       ELSE IF tasks = <<>>
         THEN /\ caller' = "idle"
              /\ ev' = Ev(0, "closed")
         ELSE /\ caller' = "closing"
              /\ ev' = Ev(0, "closing")
  /\ UNCHANGED <<config, registry, tasks, others>>

\* close() that does not wait for the tasks it cancelled.
GatherDone_nowait == TRUE

\* asyncio.gather(*self._tasks, return_exceptions=True) completes when every
\* task of self._tasks has settled; close() then clears the list and returns.
GatherDone == \A i \in Range(tasks) : Settled(i)

\* A close() that forgets the subscriptions when it returns.
close_return_clear ==
  /\ caller = "closing"
  /\ GatherDone
  /\ tasks' = <<>>
  /\ caller' = "idle"
  /\ ev' = Ev(0, "closed")
  /\ callbacks' = [c \in Channels |-> 0]
  /\ public_subscriptions' = <<>>
  /\ private_subscriptions' = <<>>
  /\ UNCHANGED <<config, running, task, others>>

close_return ==
  /\ caller = "closing"
  /\ GatherDone
  /\ tasks' = <<>>
  /\ caller' = "idle"
  /\ ev' = Ev(0, "closed")
  /\ UNCHANGED <<config, registry, running, task, others>>

-----------------------------------------------------------------------------
\* The loops.  The operators below take a task record at some point of the
\* coroutine and give the record at the next await (or "done").

Subs(r) == IF r.kind = "public" THEN public_subscriptions ELSE private_subscriptions

Done(r) ==
  [NoTask EXCEPT !.kind = r.kind, !.pc = "done", !.owed = r.owed, !.sess = r.sess]

\* Leaving the with block without closing the session.
Leave_leak(r) == r

\* Leaving `async with niquests.AsyncSession() as session` (line 121), by
\* falling out of it, continue, or an exception: __aexit__ closes the session.
Leave(r) == [r EXCEPT !.sess = r.sess - 1, !.cb = 0]

InSession(r) == r.pc \in {"connect", "failSleep", "send", "recv", "callback"}

\* _run_private_loop, `while self._running:` (line 183) down to the await of
\* get_ws_token (line 188).
PrivTop(r) ==
  IF running
    THEN [r EXCEPT !.pc = "issue", !.token = FALSE, !.uses = 0, !.idx = 0]
    ELSE Done(r)

\* After the finally block of _run_private_loop: the loop goes on, or the
\* exception (or the break) that came through it ends the loop.
AfterFinally(r, after) == IF after = "exit" THEN Done(r) ELSE PrivTop(r)

\* finally (lines 204-211): delete the token when there is one.
Finally(r, after) ==
  IF r.token
    THEN [r EXCEPT !.pc = "delete", !.after = after, !.idx = 0, !.left = 0, !.bad = FALSE]
    ELSE AfterFinally(r, after)

\* _run_ws_loop returns (its `while self._running` is false, or the break of
\* line 170): the public task ends, the private loop reaches its finally.
WsReturn(r) == IF r.kind = "public" THEN Done(r) ELSE Finally(r, "loop")

\* _run_ws_loop, `while self._running:` (line 118) down to the await of
\* session.get (line 126): one more connection attempt with the same url.
WsTop(r) ==
  IF running
    THEN [r EXCEPT !.pc = "connect", !.idx = 0, !.left = 0, !.bad = FALSE,
                   !.uses = IF r.uses < 2 THEN r.uses + 1 ELSE 2,
                   !.sess = IF r.sess < 2 THEN r.sess + 1 ELSE 2]
    ELSE WsReturn(r)

\* The receive loop's `while self._running:` (line 143); leaving it closes
\* the session and returns to the outer loop.
RecvTop(r) ==
  IF running THEN [r EXCEPT !.pc = "recv", !.cb = 0] ELSE WsTop(Leave(r))

\* _handle_error (lines 239-244) for an exception that is no CancelledError:
\* on_error is called when supplied, and what it raises propagates.
ErrCalls == IF on_error THEN 1 ELSE 0

HandlerRaises(oe) == on_error /\ oe = "raise"

\* except of _run_private_loop (lines 198-202).
PrivExcept(r, oe) ==
  IF ~running THEN [r |-> Finally(r, "exit"), err |-> 0]
  ELSE IF HandlerRaises(oe) THEN [r |-> Finally(r, "exit"), err |-> 1]
  ELSE [r |-> [r EXCEPT !.pc = "authSleep", !.idx = 0, !.left = 0, !.bad = FALSE],
        err |-> ErrCalls]

\* except of _run_ws_loop (lines 167-172); the session has been closed by
\* its context manager.
WsExcept(r, oe1, oe2) ==
  LET c == Leave(r)
  IN IF ~running THEN [r |-> WsReturn(c), err |-> 0]
     ELSE IF HandlerRaises(oe1)
       THEN IF c.kind = "public"
              THEN [r |-> Done(c), err |-> 1]
              ELSE LET p == PrivExcept(c, oe2) IN [r |-> p.r, err |-> p.err + 1]
     ELSE [r |-> [c EXCEPT !.pc = "errSleep", !.idx = 0, !.left = 0, !.bad = FALSE],
           err |-> ErrCalls]

\* _dispatch (lines 216-228): the callback a decoded frame goes to, 0 = none.
Lookup(c) == IF c \in Channels THEN callbacks[c] ELSE 0

\* A dispatch that looks at the shape of the frame before its channel.
Dispatch_shape_first(data) ==
  IF data.ask /\ data.bid THEN Lookup("ticker")
  ELSE IF data.channel # "" THEN Lookup(data.channel)
  ELSE 0

Dispatch(data) ==
  IF data.channel # "" THEN Lookup(data.channel)
  ELSE IF data.ask /\ data.bid THEN Lookup("ticker")
  ELSE 0

\* The same with no try around the callback: what it raises reaches the
\* except of _run_ws_loop.
OnFrame_uncaught(r, cb, raised, oe1, oe2) ==
  IF cb # 0 /\ raised
    THEN WsExcept(r, oe1, oe2)
    ELSE [r |-> RecvTop(r), err |-> 0]

\* _dispatch (lines 230-237) and the rest of the receive loop's body: what
\* the callback raises is caught and logged.  `bad` remembers that a
\* callback has raised on this connection (observation only).
OnFrame(r, cb, raised, oe1, oe2) ==
  [r |-> RecvTop([r EXCEPT !.bad = r.bad \/ (cb # 0 /\ raised)]), err |-> 0]

\* A dispatch that does not wait for the callback it has started.
OnAwait_detached(r, cb) == RecvTop(r)

\* `await callback(data)` (line 232) with a coroutine function that
\* suspends: the loop task waits for it inside _dispatch.
OnAwait(r, cb) == [r EXCEPT !.pc = "callback", !.cb = IF cb # 0 THEN 1 ELSE 0]

\* json.loads (line 155) on a payload that is no JSON raises inside the
\* inner try, which catches ReadTimeout only.
OnMalformed(r, oe1, oe2) == WsExcept(r, oe1, oe2)

\* A break that left _run_ws_loop instead of its receive loop.
OnBreak_return(r) == WsReturn(Leave(r))

\* A None payload or a ReadTimeout: break (lines 152, 163).
OnBreak(r) == WsTop(Leave(r))

\* A ReadTimeout that reaches the except of _run_ws_loop like any other
\* RequestException.
OnTimeout_error(r, oe1, oe2) == WsExcept(r, oe1, oe2)

\* requests.exceptions.ReadTimeout on a read (lines 161-163): caught by the
\* inner try, which breaks; _handle_error is not reached.
OnTimeout(r, oe1, oe2) == [r |-> OnBreak(r), err |-> 0]

\* resp.status_code != 101 (lines 129-132): log, sleep, continue.
OnStatus(r) == [r EXCEPT !.pc = "failSleep"]

Outcomes == {"ok", "raise"}

Active(t, pc) == task[t].pc = pc /\ ~task[t].cancel

Step(t, r2, e) ==
  /\ task' = [task EXCEPT ![t] = r2]
  /\ ev' = e
  /\ UNCHANGED <<config, running, tasks, registry, caller, others>>

\* The task starts running its coroutine.
loop_start(t) ==
  /\ Active(t, "spawned")
  /\ Step(t, IF task[t].kind = "public" THEN WsTop(task[t]) ELSE PrivTop(task[t]),
          Ev(t, "loopStart"))

IssueStep(t, o, oe) ==
  IF o = "token"
    THEN Step(t, WsTop([task[t] EXCEPT !.token = TRUE, !.uses = 0, !.owed = TRUE]),
              Ev(t, "issued"))
    ELSE LET x == PrivExcept(task[t], oe)
         IN Step(t, x.r, [Ev(t, "issueFailed") EXCEPT !.err = x.err])

\* get_ws_token completes (lines 187-196): a token, no token, or an exception.
token_issue(t) ==
  /\ Active(t, "issue")
  /\ \/ IssueStep(t, "token", "ok")
     \/ \E o \in {"empty", "error"}, oe \in Outcomes : IssueStep(t, o, oe)

ConnectStep(t, o, n, oe1, oe2) ==
  LET r == task[t]
  IN CASE o = "101" ->
            Step(t, IF Subs(r) = <<>> THEN RecvTop([r EXCEPT !.left = n])
                    ELSE [r EXCEPT !.pc = "send", !.idx = 0, !.left = n],
                 Ev(t, "connected"))
       [] o = "status" -> Step(t, OnStatus(r), Ev(t, "status"))
       [] OTHER ->
            LET x == WsExcept(r, oe1, oe2)
            IN Step(t, x.r, [Ev(t, "connectError") EXCEPT !.err = x.err])

\* session.get completes (lines 126-134).
ws_connect(t) ==
  /\ Active(t, "connect")
  /\ \/ \E o \in {"101", "status"} : ConnectStep(t, o, 0, "ok", "ok")
     \/ \E oe1, oe2 \in Outcomes : ConnectStep(t, "error", 0, oe1, oe2)

\* The for loop of lines 137-140 walks the list itself: a command appended
\* while it runs is sent too.  idx counts the commands sent on the connection.
SendStep(t, o, oe1, oe2) ==
  LET r == task[t]
  IN IF o = "ok"
       THEN Step(t, IF r.idx + 1 < Len(Subs(r))
                      THEN [r EXCEPT !.idx = r.idx + 1]
                      ELSE RecvTop([r EXCEPT !.idx = r.idx + 1]),
                 Ev(t, "sent"))
       ELSE LET x == WsExcept(r, oe1, oe2)
            IN Step(t, x.r, [Ev(t, "sendError") EXCEPT !.err = x.err])

\* send_payload of one subscribe command completes (lines 137-140).
ws_send(t) ==
  /\ Active(t, "send")
  /\ \/ SendStep(t, "ok", "ok", "ok")
     \/ \E oe1, oe2 \in Outcomes : SendStep(t, "error", oe1, oe2)

\* `cb` is the callback _dispatch chose for the frame received, `n` the
\* frames a simulated connection still holds.
RecvStep(t, n, o, cb, raised, oe1, oe2) ==
  LET r == [task[t] EXCEPT !.left = n]
  IN CASE o = "frame" ->
            LET x == OnFrame(r, cb, raised, oe1, oe2)
            IN Step(t, x.r,
                    [Ev(t, "frame") EXCEPT !.cb = cb, !.raised = (cb # 0 /\ raised),
                                           !.err = x.err])
       [] o = "none" -> Step(t, OnBreak(r), Ev(t, "serverClose"))
       [] o = "timeout" ->
            LET x == OnTimeout(r, oe1, oe2)
            IN Step(t, x.r, [Ev(t, "readTimeout") EXCEPT !.err = x.err])
       [] o = "malformed" ->
            LET x == OnMalformed(r, oe1, oe2)
            IN Step(t, x.r, [Ev(t, "decodeError") EXCEPT !.err = x.err])
       [] OTHER ->
            LET x == WsExcept(r, oe1, oe2)
            IN Step(t, x.r, [Ev(t, "recvError") EXCEPT !.err = x.err])

\* next_payload completes (lines 143-163).
ws_recv(t) ==
  /\ Active(t, "recv")
  /\ \/ \E cb \in {Dispatch(f) : f \in Frames} :
          \E raised \in (IF cb = 0 THEN {FALSE} ELSE BOOLEAN) :
            RecvStep(t, 0, "frame", cb, raised, "ok", "ok")
     \/ \E cb \in {Dispatch(f) : f \in Frames} \ {0} :
          Step(t, OnAwait(task[t], cb), [Ev(t, "callbackAwait") EXCEPT !.cb = cb])
     \/ \E o \in {"none", "timeout"} : RecvStep(t, 0, o, 0, FALSE, "ok", "ok")
     \/ \E o \in {"malformed", "error"}, oe1, oe2 \in Outcomes :
          RecvStep(t, 0, o, 0, FALSE, oe1, oe2)

\* The awaited callback returns or raises (lines 230-237); the receive loop
\* goes on.
callback_return(t) ==
  /\ Active(t, "callback")
  /\ \E raised \in BOOLEAN :
       LET x == OnFrame(task[t], task[t].cb, raised, "ok", "ok")
       IN Step(t, x.r,
               [Ev(t, "callbackDone") EXCEPT !.raised = raised, !.err = x.err])

\* asyncio.sleep(RECONNECT_DELAY) of line 131 completes; continue.
fail_sleep(t) ==
  /\ Active(t, "failSleep")
  /\ Step(t, WsTop(Leave(task[t])), Ev(t, "sleepDone"))

\* asyncio.sleep(RECONNECT_DELAY) of line 172 completes.
err_sleep(t) ==
  /\ Active(t, "errSleep")
  /\ Step(t, WsTop(task[t]), Ev(t, "sleepDone"))

\* asyncio.sleep(RECONNECT_DELAY) of line 202 completes; then the finally.
auth_sleep(t) ==
  /\ Active(t, "authSleep")
  /\ Step(t, Finally(task[t], "loop"), Ev(t, "sleepDone"))

\* delete_ws_token completes, or raises and is logged (lines 206-211).
token_delete(t) ==
  /\ Active(t, "delete")
  /\ \E o \in {"ok", "error"} :
       Step(t, AfterFinally([task[t] EXCEPT !.owed = FALSE], task[t].after),
            Ev(t, IF o = "ok" THEN "deleted" ELSE "deleteFailed"))

\* The await the task is suspended at raises CancelledError.  No handler of
\* the loops catches it; the private loop's finally still runs, unless the
\* cancelled await is the deletion itself.
\* A CancelledError caught like an Exception, with the retry delay.
OnCancel_caught(r) == [r EXCEPT !.pc = "errSleep", !.cancel = FALSE]

OnCancel(r) ==
  LET c == IF InSession(r) THEN Leave(r) ELSE r
  IN IF c.kind = "public" \/ c.pc \in {"spawned", "delete"}
       THEN Done(c)
       ELSE Finally([c EXCEPT !.cancel = FALSE], "exit")

\* What the server holds when an await is cancelled: the request of a
\* cancelled get_ws_token or delete_ws_token may or may not have reached it
\* (the await of the rate limiter, then of session.request, private_api.py
\* lines 1456-1461 and 1506-1511).
InFlight(r) == IF r.pc \in {"issue", "delete"} THEN BOOLEAN ELSE {r.owed}

cancelled(t) ==
  /\ task[t].cancel
  /\ ~Settled(t)
  /\ \E o \in InFlight(task[t]) :
       Step(t, OnCancel([task[t] EXCEPT !.owed = o]), Ev(t, "cancelled"))

Next ==
  \/ subscribe_ticker
  \/ subscribe_executions
  \/ subscribe_orders
  \/ subscribe_positions
  \/ subscribe_position_summary
  \/ start
  \/ close
  \/ close_return
  \/ \E t \in TaskIds : loop_start(t)
  \/ \E t \in TaskIds : token_issue(t)
  \/ \E t \in TaskIds : ws_connect(t)
  \/ \E t \in TaskIds : ws_send(t)
  \/ \E t \in TaskIds : ws_recv(t)
  \/ \E t \in TaskIds : callback_return(t)
  \/ \E t \in TaskIds : fail_sleep(t)
  \/ \E t \in TaskIds : err_sleep(t)
  \/ \E t \in TaskIds : auth_sleep(t)
  \/ \E t \in TaskIds : token_delete(t)
  \/ \E t \in TaskIds : cancelled(t)

Spec == Init /\ [][Next]_vars

-----------------------------------------------------------------------------
\* A simulated transport that disconnects after SimFrames frames: token
\* issue and the upgrade succeed, every send succeeds, each connection
\* delivers SimFrames decodable frames, which the callbacks accept, and then
\* the server closes it.  The client under test is constructed with its
\* credentials and an error callback.

SimInit == Init /\ api_key /\ secret_key /\ on_error

sim_issue(t) ==
  /\ Active(t, "issue")
  /\ IssueStep(t, "token", "ok")

sim_connect(t) ==
  /\ Active(t, "connect")
  /\ ConnectStep(t, "101", SimFrames, "ok", "ok")

sim_send(t) ==
  /\ Active(t, "send")
  /\ SendStep(t, "ok", "ok", "ok")

sim_recv(t) ==
  /\ Active(t, "recv")
  /\ IF task[t].left > 0
       THEN \E cb \in {Dispatch(f) : f \in Frames} :
              RecvStep(t, task[t].left - 1, "frame", cb, FALSE, "ok", "ok")
       ELSE RecvStep(t, 0, "none", 0, FALSE, "ok", "ok")

SimStep(t) ==
  \/ loop_start(t)
  \/ sim_issue(t)
  \/ sim_connect(t)
  \/ sim_send(t)
  \/ sim_recv(t)

SimNext ==
  \/ subscribe_ticker
  \/ subscribe_executions
  \/ subscribe_orders
  \/ subscribe_positions
  \/ subscribe_position_summary
  \/ start
  \/ close
  \/ close_return
  \/ \E t \in TaskIds : loop_start(t)
  \/ \E t \in TaskIds : sim_issue(t)
  \/ \E t \in TaskIds : sim_connect(t)
  \/ \E t \in TaskIds : sim_send(t)
  \/ \E t \in TaskIds : sim_recv(t)
  \/ \E t \in TaskIds : token_delete(t)
  \/ \E t \in TaskIds : cancelled(t)

\* The event loop runs every task that is ready, and the simulated transport
\* completes every await of a loop task.
SimSpec == SimInit /\ [][SimNext]_vars /\ \A t \in TaskIds : WF_vars(SimStep(t))

-----------------------------------------------------------------------------
\* RateLimiter (rate_limiter.py), shared by every coroutine that calls it:
\* PrivateAPI.get_api_limiter and PrivateAPI.post_api_limiter are class
\* attributes.  A coroutine runs __call__ up to its await in one step and
\* from the end of its sleep to the return in another.

client == <<config, running, tasks, registry, task, caller, ev, legacy>>

\* self.calls = [call for call in self.calls if call > now - self.period]
\* (line 12)
Recent == SelectSeq(calls, LAMBDA stamp : stamp > now - period)

InCall == {c \in CallerIds : wake[c] >= 0}

\* __call__ from its first line to the await or, with no sleep, to the end
\* (lines 10-19).
Acquire(c) ==
  /\ wake[c] = -1
  /\ Len(admitted) + Cardinality(InCall) < MaxAdmitted
  /\ IF Len(Recent) >= max_calls /\ period - (now - Recent[1]) > 0
       THEN /\ calls' = Recent
            /\ wake' = [wake EXCEPT ![c] = now + (period - (now - Recent[1]))]
            /\ UNCHANGED admitted
       ELSE /\ calls' = Append(Recent, now)
            /\ admitted' = Append(admitted, now)
            /\ UNCHANGED wake

limiter_call(c) ==
  /\ Acquire(c)
  /\ UNCHANGED <<client, max_calls, now, call>>

\* asyncio.sleep returns, at its deadline or later, and the caller appends
\* the time and returns (line 17).
Resume(c) ==
  /\ wake[c] >= 0
  /\ now >= wake[c]
  /\ calls' = Append(calls, now)
  /\ admitted' = Append(admitted, now)
  /\ wake' = [wake EXCEPT ![c] = -1]

limiter_wake(c) ==
  /\ Resume(c)
  /\ UNCHANGED <<client, max_calls, now, call>>

\* The clock advances.
tick ==
  /\ now < MaxTime
  /\ now' = now + 1
  /\ UNCHANGED <<client, max_calls, calls, wake, admitted, call>>

LimiterNext ==
  \/ \E c \in CallerIds : limiter_call(c)
  \/ \E c \in CallerIds : limiter_wake(c)
  \/ tick

LimiterSpecInit ==
  /\ \E m \in 1..MaxLimit : LimiterInit(m)
  /\ api_key = TRUE
  /\ secret_key = TRUE
  /\ on_error = TRUE
  /\ running = FALSE
  /\ tasks = <<>>
  /\ callbacks = [c \in Channels |-> 0]
  /\ public_subscriptions = <<>>
  /\ private_subscriptions = <<>>
  /\ task = [i \in TaskIds |-> NoTask]
  /\ caller = "idle"
  /\ ev = NoEv
  /\ legacy = NoLegacy

LimiterSpec == LimiterSpecInit /\ [][LimiterNext]_vars

-----------------------------------------------------------------------------
\* The REST clients.  Every PrivateAPI method awaits the limiter of its
\* verb first, then builds its parameters, raising ValueError for a bad
\* combination, then awaits _request; the PublicAPI methods await _request
\* at once.  get_orders, get_executions, change_order, change_oco_order,
\* change_ifd_order, change_ifo_order, cancel_orders and close_order take
\* two alternative arguments a and b, of which one must be given;
\* change_oco_order, change_ifd_order, change_ifo_order and close_order
\* have rules on their price arguments too, tested after that one: rest
\* tells whether the call meets them.

Truthy(x) == x = "value"

\* The rule without its first test: the first argument wins.
OneOf_first_wins(a, b) ==
  IF Truthy(a) THEN "a" ELSE IF Truthy(b) THEN "b" ELSE "ValueError"

\* `if a and b: raise ... elif a: ... elif b: ... else: raise ...`
\* (private_api.py lines 202-209 and the like): the argument the request
\* carries, or ValueError.
OneOf(a, b) ==
  IF Truthy(a) /\ Truthy(b) THEN "ValueError"
  ELSE IF Truthy(a) THEN "a"
  ELSE IF Truthy(b) THEN "b"
  ELSE "ValueError"

\* PrivateAPI._request (private_api.py lines 83-90) on a decoded body.
PrivateClassify(body) == IF body.status = 0 THEN "returned" ELSE "StatusError"

\* PublicAPI._request (public_api.py lines 38-45) on a decoded body.
PublicClassify(body) ==
  IF body.status = 0 THEN "StatusError"
  ELSE IF ~body.data THEN "ValueError"
  ELSE "returned"

\* A PrivateAPI method from the return of the limiter to its next await.
AfterLimiter(r) ==
  LET v == OneOf(r.a, r.b)
  IN IF v = "ValueError" \/ ~r.rest
       THEN [r EXCEPT !.pc = "done", !.out = "ValueError"]
       ELSE [r EXCEPT !.pc = "request", !.sent = v]

\* A PrivateAPI method is called with arguments a and b (lines 198-209).
private_call(c) ==
  /\ call[c].pc \in {"idle", "done"}
  /\ Acquire(c)
  /\ \E a \in Args, b \in Args, rest \in BOOLEAN :
       LET r == [NoCall EXCEPT !.a = a, !.b = b, !.rest = rest]
       IN call' = [call EXCEPT ![c] = IF wake'[c] = -1 THEN AfterLimiter(r)
                                      ELSE [r EXCEPT !.pc = "limiter"]]
  /\ UNCHANGED <<client, max_calls, now>>

\* The limiter's sleep ends and the method goes on.
private_resume(c) ==
  /\ call[c].pc = "limiter"
  /\ Resume(c)
  /\ call' = [call EXCEPT ![c] = AfterLimiter(call[c])]
  /\ UNCHANGED <<client, max_calls, now>>

\* A PublicAPI method is called (public_api.py lines 35-36).
public_call(c) ==
  /\ call[c].pc \in {"idle", "done"}
  /\ call' = [call EXCEPT ![c] = [NoCall EXCEPT !.api = "public", !.pc = "request"]]
  /\ UNCHANGED <<client, limiter>>

\* session.request returns a response whose body decodes; _request
\* classifies it.
api_response(c) ==
  /\ call[c].pc = "request"
  /\ \E body \in Bodies :
       call' = [call EXCEPT ![c] =
                  [call[c] EXCEPT !.pc = "done", !.body = body,
                                  !.out = IF call[c].api = "public"
                                            THEN PublicClassify(body)
                                            ELSE PrivateClassify(body)]]
  /\ UNCHANGED <<client, limiter>>

api_tick ==
  /\ now < MaxTime
  /\ now' = now + 1
  /\ UNCHANGED <<client, max_calls, calls, wake, admitted, call>>

ApiNext ==
  \/ \E c \in CallerIds : private_call(c)
  \/ \E c \in CallerIds : private_resume(c)
  \/ \E c \in CallerIds : public_call(c)
  \/ \E c \in CallerIds : api_response(c)
  \/ api_tick

ApiSpec == LimiterSpecInit /\ [][ApiNext]_vars

-----------------------------------------------------------------------------
\* The WebsocketAPI of the package's __init__.py (lines 1471-1569): one
\* connection at a time, started by start_public_ws or start_private_ws,
\* which return when the connection has ended, and stopped by stop_ws.

outside == <<config, running, tasks, registry, task, caller, ev, limiter, call>>

\* PrivateAPI.__init__ (__init__.py lines 189-191) on its two arguments.
NewPrivateAPI(k, s) == IF k = "none" \/ s = "none" THEN "ValueError" ELSE "ok"

\* The subscribe messages start_private_ws builds (lines 1547-1552).
RECURSIVE SubscribeMessages(_)
SubscribeMessages(channels) ==
  IF channels = <<>> THEN <<>>
  ELSE <<[channel |-> Head(channels).name, option |-> Head(channels).option]>>
         \o SubscribeMessages(Tail(channels))

\* `if self.on_error_callback: self.on_error_callback(e) else: print(...)`
\* (lines 1507-1511 and 1555-1559); a callback that raises ends the call
\* with its exception.
Report(r, e) ==
  [r EXCEPT !.err = e,
            !.reported = r.on_error_callback # "none",
            !.raised = r.on_error_callback = "raises"]

\* `while not self._stop.is_set()` (line 1497)
LoopTop(r) == [r EXCEPT !.pc = IF r.stop THEN "finally" ELSE "recv"]

\* An exception inside _connect's try (lines 1507-1511).
ConnectExcept(r, e) == [Report(r, e) EXCEPT !.pc = "finally"]

\* start_private_ws (lines 1537-1559) up to its first await: PrivateAPI()
\* is built with no arguments.
StartPrivate(r, channels) ==
  LET r0 == [r EXCEPT !.kind = "private", !.channels = channels, !.msgs = <<>>,
                      !.sent = <<>>, !.stop = FALSE, !.err = "",
                      !.reported = FALSE, !.raised = FALSE, !.closed = FALSE]
  IN IF NewPrivateAPI("none", "none") = "ValueError"
       THEN [Report(r0, "ValueError") EXCEPT !.pc = "ended"]
       ELSE [r0 EXCEPT !.pc = "token"]

start_private_ws ==
  /\ legacy.pc \in {"idle", "ended"}
  /\ \E channels \in ChannelLists :
       legacy' = StartPrivate(legacy, channels)
  /\ UNCHANGED outside

\* start_public_ws (lines 1522-1530) up to the await of session.get.
start_public_ws ==
  /\ legacy.pc \in {"idle", "ended"}
  /\ \E symbol \in Symbols :
       legacy' = [legacy EXCEPT !.kind = "public", !.channels = <<>>,
                    !.msgs = <<[channel |-> "ticker", option |-> symbol]>>,
                    !.sent = <<>>, !.stop = FALSE, !.err = "",
                    !.reported = FALSE, !.raised = FALSE, !.closed = FALSE,
                    !.pc = "connect"]
  /\ UNCHANGED outside

\* session.get returns or raises (lines 1485-1489).
connect_get ==
  /\ legacy.pc = "connect"
  /\ \/ legacy' = (IF legacy.msgs # <<>>
                     THEN [legacy EXCEPT !.open = TRUE, !.pc = "send"]
                     ELSE LoopTop([legacy EXCEPT !.open = TRUE]))
     \/ legacy' = ConnectExcept(legacy, "no extension")
     \/ legacy' = ConnectExcept(legacy, "transport")
  /\ UNCHANGED outside

\* send_payload of the next message returns or raises (lines 1493-1495).
connect_send ==
  /\ legacy.pc = "send"
  /\ \/ LET r == [legacy EXCEPT !.sent = Append(legacy.sent,
                                   legacy.msgs[Len(legacy.sent) + 1])]
        IN legacy' = IF Len(r.sent) < Len(r.msgs) THEN r ELSE LoopTop(r)
     \/ legacy' = ConnectExcept(legacy, "transport")
  /\ UNCHANGED outside

\* next_payload returns a message, returns None, times out or raises
\* (lines 1497-1506).
connect_recv ==
  /\ legacy.pc = "recv"
  /\ \/ legacy' = LoopTop(legacy)
     \/ legacy' = ConnectExcept(legacy, "callback")
     \/ legacy' = [legacy EXCEPT !.pc = "finally"]
     \/ legacy' = ConnectExcept(legacy, "transport")
  /\ UNCHANGED outside

\* _connect's finally (lines 1512-1520) and the return to the caller.
connect_finally ==
  /\ legacy.pc = "finally"
  /\ legacy' = [legacy EXCEPT !.open = FALSE, !.pc = "ended",
                              !.closed = legacy.on_close_callback]
  /\ UNCHANGED outside

\* stop_ws (lines 1561-1569).
stop_ws ==
  /\ ~legacy.stop \/ legacy.open
  /\ legacy' = [legacy EXCEPT !.stop = TRUE, !.open = FALSE]
  /\ UNCHANGED outside

LegacyNext ==
  \/ start_private_ws
  \/ start_public_ws
  \/ connect_get
  \/ connect_send
  \/ connect_recv
  \/ connect_finally
  \/ stop_ws

LegacyInit ==
  /\ LimiterInit(1)
  /\ api_key = TRUE
  /\ secret_key = TRUE
  /\ on_error = TRUE
  /\ running = FALSE
  /\ tasks = <<>>
  /\ callbacks = [c \in Channels |-> 0]
  /\ public_subscriptions = <<>>
  /\ private_subscriptions = <<>>
  /\ task = [i \in TaskIds |-> NoTask]
  /\ caller = "idle"
  /\ ev = NoEv
  /\ \E e \in {"none", "returns", "raises"}, c \in BOOLEAN :
       legacy = [NoLegacy EXCEPT !.on_error_callback = e, !.on_close_callback = c]

LegacySpec == LegacyInit /\ [][LegacyNext]_vars

-----------------------------------------------------------------------------
\* close() awaited by a frame callback.  The callback runs inside the loop
\* task t (line 232): close() clears the flag, calls cancel() on every task
\* of self._tasks, t included (t is running, so the request is kept for its
\* next await), and awaits asyncio.gather over the same tasks.  When t
\* suspends on that gather the pending request cancels the gather, whose
\* cancel() calls t.cancel(), which cancels the gather again: the recursion
\* ends in a RecursionError inside the event loop's callback, and t is left
\* suspended on a gather that waits for t.  close() neither returns nor
\* raises, and t never settles.

callback_close(t) ==
  /\ Active(t, "recv")
  /\ t \in Range(tasks)
  /\ \E cb \in {Dispatch(f) : f \in Frames} \ {0} :
       ev' = [Ev(t, "closeHung") EXCEPT !.cb = cb]
  /\ running' = FALSE
  /\ task' = [i \in TaskIds |->
                IF i = t THEN [task[t] EXCEPT !.pc = "hung"]
                ELSE IF i \in Range(tasks) /\ ~Settled(i)
                  THEN [task[i] EXCEPT !.cancel = TRUE]
                  ELSE task[i]]
  /\ UNCHANGED <<config, registry, tasks, caller, others>>

ReentrantNext ==
  \/ Next
  \/ \E t \in TaskIds : callback_close(t)

ReentrantSpec == Init /\ [][ReentrantNext]_vars

-----------------------------------------------------------------------------
\* _dispatch on its own: any registry the subscribe_* calls can build, any
\* decoded frame.

dispatch_frame ==
  /\ caller = "idle"
  /\ \E data \in Frames :
       ev' = [Ev(0, "dispatch") EXCEPT !.frame = data, !.cb = Dispatch(data)]
  /\ UNCHANGED <<config, running, tasks, registry, task, caller, others>>

DispatchNext ==
  \/ subscribe_ticker
  \/ subscribe_executions
  \/ subscribe_orders
  \/ subscribe_positions
  \/ subscribe_position_summary
  \/ dispatch_frame

DispatchSpec == Init /\ [][DispatchNext]_vars

-----------------------------------------------------------------------------
\* Properties

Private(t) == task[t].kind = "private"

SessionOpen(t) == task[t].pc \in {"connect", "failSleep", "send", "recv"}

\* The subscribe commands sent so far on the task's connection.
Sent(t) == SubSeq(Subs(task[t]), 1, task[t].idx)

\* C1: every private connection attempt uses a token issued for that
\* attempt: the token of an attempt in progress has been used by no earlier
\* attempt (`uses` counts the attempts made with the current token).
C1_FreshTokenPerAttempt ==
  \A t \in TaskIds : (Private(t) /\ task[t].pc = "connect") => task[t].uses = 1

\* C2: when a session of a running client has just ended (orderly close,
\* liveness timeout, failed upgrade or exception), the loop is in a
\* RECONNECT_DELAY sleep or has ended: it is not already in its next
\* connection attempt or token request.
SessionEnds ==
  {"serverClose", "readTimeout", "status", "connectError", "sendError",
   "decodeError", "recvError"}

C2_DelayBeforeRetry ==
  \A t \in TaskIds :
    (ev.t = t /\ ev.kind \in SessionEnds) =>
      IF running
        THEN task[t].pc \notin {"connect", "issue", "send", "recv"}
        ELSE task[t].pc \in {"done", "delete"}

\* C3: after any sequence of subscribe_* calls each subscription list holds
\* at most one command per channel.
OnePerChannel(list) ==
  \A i, j \in 1..Len(list) : i # j => list[i].channel # list[j].channel

C3_OneCommandPerChannel ==
  OnePerChannel(public_subscriptions) /\ OnePerChannel(private_subscriptions)

\* C4: on an established connection on which the whole subscription list has
\* been sent, every registered channel of the stream has had its subscribe
\* command sent exactly once.
C4_EachChannelSentOnce ==
  \A t \in TaskIds :
    (task[t].pc = "recv" /\ task[t].idx = Len(Subs(task[t]))) =>
      \A c \in {Subs(task[t])[i].channel : i \in 1..Len(Subs(task[t]))} :
        Cardinality({i \in 1..Len(Sent(t)) : Sent(t)[i].channel = c}) = 1

\* C5: a start() step taken with a private subscription registered and
\* api_key or secret_key missing raises, and it raises before any network
\* attempt: the only tasks the step touches are tasks it has just created,
\* none of which has run yet.
C5_StartFailsFast ==
  [][(ev'.kind \in {"start", "startRaised"}
        /\ private_subscriptions # <<>> /\ (~api_key \/ ~secret_key))
      => /\ ev'.kind = "startRaised"
         /\ \A i \in TaskIds : task'[i] # task[i] => task'[i].pc = "spawned"
         /\ \A i \in TaskIds : ~Private(i)']_vars

C5_Witness ==
  /\ ev.kind = "startRaised"
  /\ public_subscriptions # <<>>
  /\ \E i \in TaskIds : task[i].kind = "public" /\ task[i].pc = "spawned"

\* C6: whenever close() has returned and start() has not been called since
\* (RunState false, the caller not inside close()), no loop task is alive;
\* a settled task takes no step, so no connect, send, receive, dispatch,
\* token or error-callback step follows.
C6_CloseSettlesAll ==
  (caller = "idle" /\ ~running) => \A i \in TaskIds : Settled(i)

C6_Witness ==
  /\ ev.kind = "closed"
  /\ ~running
  /\ \E i \in TaskIds : Private(i) /\ task[i].pc = "done"
  /\ \E i \in TaskIds : task[i].kind = "public" /\ task[i].pc = "done"

\* C7: with the simulated transport, every disconnect of a running client is
\* eventually followed by a new connection of the same loop on which the
\* whole subscription list has been sent again, unless close() is called.
Disconnected(t) == ev.t = t /\ ev.kind = "serverClose" /\ running

Resubscribed(t) ==
  /\ task[t].pc = "recv"
  /\ task[t].idx = Len(Subs(task[t]))
  /\ task[t].uses >= 1

C7_ReconnectsForever ==
  \A t \in TaskIds : Disconnected(t) ~> (Resubscribed(t) \/ ~running)

\* A second (or later) connection of one loop, with every command sent.
C7_Witness ==
  \E t \in TaskIds : Resubscribed(t) /\ task[t].uses = 2 /\ running

\* C8: after a frame that is no JSON the loop is still receiving on the same
\* connection.
C8_MalformedFrameDropped ==
  \A t \in TaskIds : (ev.t = t /\ ev.kind = "decodeError") => task[t].pc = "recv"

\* C9: a failed connection attempt (an exception, or a status other than
\* 101) after which the loop waits for its retry has been reported once
\* through on_error, when one is supplied.
C9_FailedAttemptReported ==
  \A t \in TaskIds :
    (on_error /\ ev.t = t /\ ev.kind \in {"status", "connectError"}
       /\ task[t].pc \in {"failSleep", "errSleep"})
      => ev.err = 1

\* C10: when a callback has raised, the loop is receiving on the same
\* connection, nothing was reported as an error, and the session is open.
C10_CallbackErrorIsolated ==
  \A t \in TaskIds :
    (ev.t = t /\ ev.kind = "frame" /\ ev.raised) =>
      /\ task[t].pc = "recv"
      /\ SessionOpen(t)
      /\ task[t].bad
      /\ ev.err = 0

\* A frame delivered to its callback on a connection on which a callback
\* has raised before.
C10_Witness ==
  \E t \in TaskIds :
    /\ ev.t = t /\ ev.kind = "frame" /\ ev.cb # 0 /\ ~ev.raised
    /\ task[t].bad
    /\ task[t].pc = "recv"

\* C11 as stated: the frame is dispatched by its channel when it has a
\* "channel" field, whatever the value of the field; only a frame without
\* the field falls back to the ask/bid shape.
Registered(c) ==
  \E i \in 1..Len(public_subscriptions \o private_subscriptions) :
    (public_subscriptions \o private_subscriptions)[i].channel = c

C11_DispatchByChannelField ==
  ev.kind = "dispatch" =>
    LET target == IF ev.frame.key THEN ev.frame.channel
                  ELSE IF ev.frame.ask /\ ev.frame.bid THEN "ticker"
                  ELSE "-"
    IN IF Registered(target) THEN ev.cb = callbacks[target] ELSE ev.cb = 0

\* C11, amended: the frame is dispatched by its channel when the value of
\* its "channel" field is non-empty; a frame whose channel is absent, null
\* or empty and that has "ask" and "bid" goes to the ticker callback when
\* subscribe_ticker was called; every other frame invokes no callback.  In
\* particular the callback invoked for a frame with a non-empty channel is
\* the one registered for that channel.
C11_DispatchRule ==
  ev.kind = "dispatch" =>
    LET target == IF ev.frame.channel # "" THEN ev.frame.channel
                  ELSE IF ev.frame.ask /\ ev.frame.bid THEN "ticker"
                  ELSE "-"
    IN /\ IF Registered(target) THEN ev.cb = callbacks[target] ELSE ev.cb = 0
       /\ ev.cb # 0 => \A c \in Channels : callbacks[c] = ev.cb => c = target

\* A frame with "ask" and "bid" whose channel is present but empty, handed
\* to the ticker callback.
C11_Witness ==
  /\ ev.kind = "dispatch"
  /\ ev.frame.key /\ ev.frame.channel = ""
  /\ ev.frame.ask /\ ev.frame.bid
  /\ ev.cb # 0
  /\ Registered("orderEvents")

\* C12: at most one connection per stream is open at any time.
Connected(t) == task[t].pc \in {"send", "recv"}

C12_OneConnectionPerStream ==
  \A k \in {"public", "private"} :
    Cardinality({t \in TaskIds : task[t].kind = k /\ Connected(t)}) <= 1

\* C13: when an established session of a running private loop has just
\* ended, the loop is on its way to the deletion of the token the session
\* used (in the deletion, or in the delay that precedes it), not in a delay
\* that leads to the next connection attempt and not in that attempt.
EstablishedEnds ==
  {"serverClose", "readTimeout", "sendError", "decodeError", "recvError"}

C13_DeleteAfterSession ==
  \A t \in TaskIds :
    (Private(t) /\ running /\ ev.t = t /\ ev.kind \in EstablishedEnds) =>
      task[t].pc \in {"delete", "authSleep"}

\* C17: after a read timeout nothing was reported through on_error, and
\* the loop of a running client has left the connection and is in its next
\* connection attempt: the task has not ended.
C17_TimeoutIsNoError ==
  \A t \in TaskIds :
    (ev.t = t /\ ev.kind = "readTimeout") =>
      /\ ev.err = 0
      /\ IF running THEN task[t].pc = "connect" /\ task[t].uses >= 1
                    ELSE task[t].pc \in {"done", "delete"}

C17_Witness ==
  \E t \in TaskIds :
    /\ ev.t = t /\ ev.kind = "readTimeout"
    /\ on_error /\ running
    /\ Private(t) /\ task[t].pc = "connect"

\* C18: a cancelled loop task reports nothing through on_error and makes no
\* further connection attempt or token request: it has ended, or it is in
\* the deletion of its token, after which it ends.
C18_CancelUnwinds ==
  \A t \in TaskIds :
    /\ (ev.t = t /\ ev.kind = "cancelled") =>
         /\ ev.err = 0
         /\ \/ task[t].pc = "done"
            \/ task[t].pc = "delete" /\ task[t].after = "exit" /\ ~task[t].cancel
    /\ (ev.t = t /\ ev.kind \in {"deleted", "deleteFailed"} /\ ~running) =>
         task[t].pc = "done" /\ ev.err = 0

\* A private loop cancelled while it held a token, and the end of the
\* deletion that followed.
C18_Witness ==
  \E t \in TaskIds :
    /\ ev.t = t /\ ev.kind = "deleted" /\ ~running /\ caller = "closing"
    /\ on_error
    /\ Private(t) /\ task[t].pc = "done"

\* C19: a loop task ends only when RunState is false.
C19_EndsOnlyWhenClosed ==
  \A t \in TaskIds : (ev.t = t /\ task[t].pc = "done") => ~running

\* C14: when close() has returned, every token the server issued to a
\* loop has had a deletion request sent.
C14_NoTokenLeftAtClose ==
  ev.kind = "closed" => \A t \in TaskIds : ~task[t].owed

\* C15: no call of close() raises, and every call of close() leaves
\* RunState false, callbacks that await close() included.
C15_CloseNeverRaises ==
  /\ ev.kind \in {"closing", "closed", "closeHung", "closeRaised"} => ~running
  /\ ev.kind # "closeRaised"

\* C16: close() leaves the subscription lists and the callback registry as
\* they were, and so does start(); every start(), the one after a close()
\* included, creates a loop for exactly the streams whose list is not empty
\* (the private one when the credentials are there), and each loop sends
\* the commands of its list.
StartsLoop(k) ==
  IF k = "public" THEN public_subscriptions # <<>>
  ELSE private_subscriptions # <<>> /\ api_key /\ secret_key

C16_CloseKeepsRegistry ==
  [][/\ ev'.kind \in {"closing", "closed"} => registry' = registry
     /\ ev'.kind \in {"start", "startRaised"} =>
          /\ registry' = registry
          /\ \A k \in {"public", "private"} :
               StartsLoop(k) <=>
                 \E i \in TaskIds :
                   task'[i] # task[i] /\ task'[i].kind = k /\ task'[i].pc = "spawned"]_vars

\* A loop of a start() that followed a close() (a task that close() has
\* dropped from the task list is done) has sent the whole list again.
C16_Witness ==
  /\ running
  /\ \E u \in TaskIds : task[u].pc = "done" /\ u \notin Range(tasks)
  /\ \E t \in TaskIds :
       /\ t \in Range(tasks)
       /\ task[t].pc = "recv"
       /\ Len(Subs(task[t])) >= 1
       /\ task[t].idx = Len(Subs(task[t]))

\* C20: in every window of length period (beginning at an admission) the
\* limiter has admitted at most max_calls calls.
C20_AtMostMaxCallsPerWindow ==
  \A i \in 1..Len(admitted) :
    Cardinality({j \in 1..Len(admitted) :
                   admitted[i] <= admitted[j] /\ admitted[j] < admitted[i] + period})
      <= max_calls

\* C21: a subscribe_* call leaves every open connection as it was: the
\* commands still to be sent on a connection that is sending its list are
\* the same, and so is the callback each frame of that connection's stream
\* is dispatched to.
StreamFrames(k) ==
  {f \in Frames : IF k = "public" THEN f.channel \in {"ticker", ""}
                                  ELSE f.channel \in PrivateChannels}

C21_SubscribeLeavesOpenConnection ==
  [][ev'.kind = "subscribe" =>
       \A t \in TaskIds :
         Connected(t) =>
           /\ task[t].pc = "send" => Subs(task[t])' = Subs(task[t])
           /\ \A f \in StreamFrames(task[t].kind) : Dispatch(f)' = Dispatch(f)]_vars

\* C22: while the client is running, every stream with a registered
\* subscription has a live loop, the only thing that connects and sends the
\* stream's commands (simulated transport: loops end by close() only).
C22_OwningLoopExists ==
  \A k \in {"public", "private"} :
    (running /\ (IF k = "public" THEN public_subscriptions
                                 ELSE private_subscriptions) # <<>>) =>
      \E t \in Range(tasks) : task[t].kind = k /\ ~Settled(t)

\* C23: when a token request of a running private loop has just failed (no
\* token, or an exception), no connection was opened, the failure was
\* reported once through on_error when one is supplied, and the loop is in
\* the reconnect delay, holding no token to delete; when that delay ends
\* the loop requests a token again.
C23_IssueFailureRetried ==
  \A t \in TaskIds :
    /\ (ev.t = t /\ ev.kind = "issueFailed" /\ running) =>
         /\ task[t].pc = "authSleep"
         /\ ~task[t].token
         /\ task[t].uses = 0
         /\ ev.err = ErrCalls
    /\ (ev.t = t /\ ev.kind = "sleepDone" /\ Private(t) /\ running /\ ~task[t].token) =>
         task[t].pc \in {"issue", "connect"}

\* C27: a start() that raised has left RunState false and has created no
\* loop task.
C27_FailedStartLeavesNothing ==
  ev.kind = "startRaised" =>
    /\ ~running
    /\ \A i \in TaskIds : task[i].pc # "spawned"

\* C25: a loop holds one open session while it is inside a connection
\* attempt or connection and none otherwise: every session opened has been
\* closed, once, when the loop leaves the attempt by any path, and before
\* the loop opens its next session.
C25_SessionClosedOnce ==
  \A t \in TaskIds :
    task[t].pc # "none" => task[t].sess = (IF InSession(task[t]) THEN 1 ELSE 0)

\* A session closed by cancellation, after sessions of the same loop were
\* closed by a server close or a failure.
C25_Witness ==
  \E t \in TaskIds :
    /\ ev.t = t /\ ev.kind = "cancelled"
    /\ task[t].pc = "done" /\ task[t].sess = 0
    /\ \E u \in TaskIds : u # t /\ task[u].uses = 2 /\ task[u].sess = 1

\* C26: a loop that is receiving does not go back to sending on the same
\* connection, and while a callback is awaited the loop does nothing else:
\* its next step is the end of that callback (or its cancellation), and
\* only then is the next frame read.
C26_SendThenReceiveInOrder ==
  [][\A t \in TaskIds :
       /\ task[t].pc \in {"recv", "callback"} => task'[t].pc # "send"
       /\ (ev'.t = t /\ ev'.kind = "callbackAwait") =>
            task'[t].pc = "callback" /\ task'[t].cb = 1
       /\ (task[t].pc = "callback" /\ task'[t] # task[t]) =>
            \/ ev'.t = t /\ ev'.kind \in {"callbackDone", "cancelled"}
            \/ task'[t] = [task[t] EXCEPT !.cancel = TRUE]]_vars

\* A callback that was awaited has ended and the loop, with its whole list
\* sent, reads the next frame.
C26_Witness ==
  \E t \in TaskIds :
    /\ ev.t = t /\ ev.kind = "callbackDone"
    /\ task[t].pc = "recv"
    /\ Len(Subs(task[t])) >= 1
    /\ task[t].idx = Len(Subs(task[t]))

\* C24 as stated: a call that gives both alternatives or neither has
\* raised ValueError, and a call that gives exactly one has sent a request
\* that carries that one; given means not None.
Given(x) == x # "none"

Validated(r) == r.api = "private" /\ (r.pc \in {"request", "done"})

C24_ExactlyOneGiven ==
  \A c \in CallerIds :
    (Validated(call[c]) /\ call[c].rest) =>
      IF Given(call[c].a) = Given(call[c].b)
        THEN call[c].out = "ValueError" /\ call[c].sent = ""
        ELSE call[c].sent = (IF Given(call[c].a) THEN "a" ELSE "b")

\* C24, amended: the same with `given` read as the code reads it, given
\* with a truthy value: a call with both alternatives truthy or neither has
\* raised ValueError and sent nothing; a call with exactly one truthy has
\* raised ValueError only for another rule of the operation, and otherwise
\* its request carries that one and not the other.
C24_ExactlyOneTruthy ==
  \A c \in CallerIds :
    Validated(call[c]) =>
      IF Truthy(call[c].a) = Truthy(call[c].b)
        THEN call[c].out = "ValueError" /\ call[c].sent = "" /\ call[c].pc = "done"
        ELSE IF call[c].rest
          THEN /\ call[c].out # "ValueError"
               /\ call[c].sent = (IF Truthy(call[c].a) THEN "a" ELSE "b")
          ELSE call[c].out = "ValueError" /\ call[c].sent = ""

\* A request that carries the second argument, the first having been given
\* with a falsy value.
C24_Witness ==
  \E c \in CallerIds :
    /\ call[c].api = "private" /\ call[c].pc = "done"
    /\ call[c].a = "falsy" /\ call[c].b = "value" /\ call[c].rest
    /\ call[c].sent = "b" /\ call[c].out = "returned"

\* C28: both clients return a body with status 0 and raise Status Error
\* for any other status.
C28_SameClassification ==
  \A c \in CallerIds :
    (call[c].pc = "done" /\ (call[c].api = "public" \/ call[c].sent # "")) =>
      call[c].out = (IF call[c].body.status = 0 THEN "returned" ELSE "StatusError")

\* C29: a step in which a PrivateAPI call is rejected by its validation
\* leaves the limiter as it was, and the call has not waited on it.
C29_RejectedCallLeavesLimiter ==
  [][\A c \in CallerIds :
       (call'[c].out = "ValueError" /\ call'[c].api = "private"
          /\ call'[c] # call[c]) =>
         /\ calls' = calls
         /\ call[c].pc # "limiter"]_vars

\* C30: a start_private_ws that has returned has sent the subscribe
\* messages of its channels, one per channel and in order, unless the token
\* request or the connection failed, and then it has reported that failure
\* to on_error_callback.
C30_PrivateStartSubscribes ==
  (legacy.kind = "private" /\ legacy.pc = "ended") =>
    \/ legacy.sent = SubscribeMessages(legacy.channels)
    \/ /\ legacy.err \in {"token", "transport", "no extension"}
       /\ legacy.on_error_callback # "none" => legacy.reported

====
